---- MODULE Spec2Model ----
(***************************************************************************)
(* A model of the GitLab activity tracker (src/day_activity_2.js): the     *)
(* collection loop of main, the branch attribution of                      *)
(* getCommitsWithCorrectBranch, the reconciliation of saveAsJson against   *)
(* daily_activity.json and the incremental text report of                  *)
(* saveGroupedToMarkdown.                                                  *)
(*                                                                         *)
(* JavaScript strings are TLA+ strings; a string the code builds from      *)
(* parts (a template literal, a regex match) is the tuple of its parts, so *)
(* that two built strings are equal exactly when their texts are.          *)
(* A title is the tuple of its parts too.                                   *)
(* Timestamps (ISO-8601 strings in the code) are ticks of twelve hours     *)
(* counted from local midnight of Tuesday 30 April 2024.                   *)
(***************************************************************************)
EXTENDS Integers, Sequences, FiniteSets, TLC

VARIABLES
    pc,             \* where the run is: "idle", "json", "md", and the collection's steps
    allActivities,  \* main: const allActivities = [] (the batch handed to the save step)
    file,           \* daily_activity.json
    lastLoad,       \* what extractExistingFromJson returned in the last saveAsJson
    lastSave,       \* how the last saveAsJson ended: threw, its delta, its return value
    md,             \* daily_activity.md
    projIdx,        \* main: position of the for (const project of projects) loop
    remote,         \* what the remote API holds for the project being processed
    mergeRequests,  \* main: let mergeRequests = [] of the current project
    commits,        \* main: const commits of the current project
    faults,         \* per project so far, the remote calls that failed
    expected        \* per project so far, what the remote API held

vars == <<pc, allActivities, file, lastLoad, lastSave, md, projIdx, remote,
          mergeRequests, commits, faults, expected>>

-----------------------------------------------------------------------------
(* Bounds *)

MaxBatch == 2       \* activities in one collected batch (reconciliation runs)
MaxRecord == 3      \* entries of the structured record / bullets of the report

-----------------------------------------------------------------------------
(* Activities *)

Undefined == "undefined"    \* a JS field that is null, undefined or absent

Arrow == " -> "             \* the " → " of the template literals

\* getCommitsWithCorrectBranch's object literals (99-109, 140-150) with main's c.project
Commit(project, sha, date, branch, target_branch, title, fromMR, mr_source, mr_target) ==
    [type |-> "Commit", project |-> project, date |-> date, sha |-> sha,
     title |-> title, iid |-> 0, source |-> Undefined, target |-> Undefined,
     branch |-> branch, target_branch |-> target_branch,
     from_merge_request |-> fromMR, mr_source |-> mr_source, mr_target |-> mr_target]

\* getMergeRequests' object literal with main's {...mr, type, project}
MergeRequest(project, iid, sha, source, target, title, date) ==
    [type |-> "Merge Request", project |-> project, date |-> date, sha |-> sha,
     title |-> title, iid |-> iid, source |-> source, target |-> target,
     branch |-> Undefined, target_branch |-> Undefined,
     from_merge_request |-> FALSE, mr_source |-> Undefined, mr_target |-> Undefined]

\* an entry of the activities array that is not an object (JSON null)
NullEntry ==
    [type |-> "null", project |-> Undefined, date |-> 0, sha |-> Undefined,
     title |-> <<>>, iid |-> 0, source |-> Undefined, target |-> Undefined,
     branch |-> Undefined, target_branch |-> Undefined,
     from_merge_request |-> FALSE, mr_source |-> Undefined, mr_target |-> Undefined]

\* `${item.source} -> ${item.target}`
MrKey(item) == <<item.source, Arrow, item.target>>

\* item.sha as a Set member
ShaKey(item) == <<item.sha>>

-----------------------------------------------------------------------------
(* Array.prototype.sort with a comparator (b, a) => key(b) - key(a)         *)

NaN == -1   \* the time value of an Invalid Date; every valid one is >= 0

\* the comparator's result for the elements at i and j, NaN read as +0 (SortCompare)
Compare(keys, i, j) ==
    IF keys[i] = NaN \/ keys[j] = NaN THEN 0 ELSE keys[j] - keys[i]

\* ECMAScript's "consistent comparator": = and < are transitive over the elements
Consistent(keys) ==
    \A i, j, k \in DOMAIN keys :
        /\ (Compare(keys, i, j) = 0 /\ Compare(keys, j, k) = 0) => Compare(keys, i, k) = 0
        /\ (Compare(keys, i, j) < 0 /\ Compare(keys, j, k) < 0) => Compare(keys, i, k) < 0
        /\ (Compare(keys, i, j) < 0 /\ Compare(keys, j, k) = 0) => Compare(keys, i, k) < 0
        /\ (Compare(keys, i, j) = 0 /\ Compare(keys, j, k) < 0) => Compare(keys, i, k) < 0

\* the stable order of the indices: i before j iff it compares lower, or
\* compares equal and came first
Before(keys, i, j) ==
    \/ Compare(keys, i, j) < 0
    \/ (Compare(keys, i, j) = 0 /\ i < j)

\* the index that the stable sort puts at position p (1-based)
StableAt(keys, p) ==
    CHOOSE i \in DOMAIN keys :
        Cardinality({j \in DOMAIN keys : Before(keys, j, i)}) = p - 1

Orders(n) ==
    {f \in [1..n -> 1..n] : \A i, j \in 1..n : f[i] = f[j] => i = j}

\* the orders sort may leave the elements in: the stable sorted one when the
\* comparator is consistent, implementation-defined (any order) when it is not
SortOrders(keys) ==
    IF Consistent(keys)
    THEN {[p \in DOMAIN keys |-> StableAt(keys, p)]}
    ELSE Orders(Len(keys))

-----------------------------------------------------------------------------
(* daily_activity.json *)

AbsentFile ==
    [kind |-> "absent", total_activities |-> 0,
     summary |-> [commits |-> 0, merge_requests |-> 0], activities |-> <<>>]

\* a file whose content JSON.parse rejects
InvalidFile == [AbsentFile EXCEPT !.kind = "invalid"]

Count(s, x) == Cardinality({i \in DOMAIN s : s[i] = x})

CountType(s, t) == Cardinality({i \in DOMAIN s : s[i].type = t})

\* saveAsJson's const output (228-236)
Output(allData) ==
    [kind |-> "json", total_activities |-> Len(allData),
     summary |-> [commits |-> CountType(allData, "Commit"),
                  merge_requests |-> CountType(allData, "Merge Request")],
     activities |-> allData]

\* the entries forEach visits before one throws (item.type of null)
ReadablePrefix(s) ==
    LET bad == {i \in DOMAIN s : s[i] = NullEntry}
    IN  IF bad = {} THEN s
        ELSE SubSeq(s, 1, (CHOOSE i \in bad : \A j \in bad : i <= j) - 1)

ExtractExistingFromJson(f) ==
    IF f.kind # "json"
    THEN [shas |-> {}, mrs |-> {}, data |-> <<>>]
    ELSE LET seen == ReadablePrefix(f.activities)
         IN  [shas |-> {ShaKey(seen[i]) : i \in {j \in DOMAIN seen : seen[j].type = "Commit"}},
              mrs |-> {MrKey(seen[i]) : i \in {j \in DOMAIN seen : seen[j].type = "Merge Request"}},
              data |-> f.activities]

\* Keep with the merge request test lost: every merge request passes
KeepCommitsOnly(item, existing) ==
    IF item.type = "Commit" THEN ShaKey(item) \notin existing.shas ELSE TRUE

\* the filter callback of saveAsJson (211-216)
Keep(item, existing) ==
    IF item.type = "Commit" THEN ShaKey(item) \notin existing.shas
    ELSE IF item.type = "Merge Request" THEN MrKey(item) \notin existing.mrs
    ELSE TRUE

FilteredData(data, existing) ==
    LET Test(item) == Keep(item, existing)
    IN  SelectSeq(data, Test)

\* new Date(item.date): the instant of an ISO timestamp, in hours
NewDate(date) == date * 12

\* AllData with the sort left out
AllDataUnsorted(existingData, filteredData) == existingData \o filteredData

\* AllData that sorts the new entries only and drops the existing ones
AllDataOnlyNew(existingData, filteredData) ==
    LET keys == [i \in DOMAIN filteredData |-> NewDate(filteredData[i].date)]
        order == CHOOSE o \in SortOrders(keys) : TRUE
    IN  [p \in DOMAIN filteredData |-> filteredData[order[p]]]

\* [...existing.data, ...filteredData].sort((a, b) => new Date(b.date) - new Date(a.date))
AllData(existingData, filteredData) ==
    LET all == existingData \o filteredData
        keys == [i \in DOMAIN all |-> NewDate(all[i].date)]
        order == CHOOSE o \in SortOrders(keys) : TRUE
    IN  [p \in DOMAIN all |-> all[order[p]]]

\* saveAsJson as a function of the batch and the file: whether it threw, the
\* delta, the value returned and the file it leaves
SaveAsJsonResult(data, f) ==
    LET existing == ExtractExistingFromJson(f)
        filteredData == FilteredData(data, existing)
    IN  IF filteredData = <<>> /\ Len(existing.data) > 0
        THEN [threw |-> FALSE, delta |-> filteredData, ret |-> existing.data, file |-> f]
        ELSE IF \E i \in DOMAIN existing.data : existing.data[i] = NullEntry
        THEN \* the comparator reads b.date of null: TypeError, nothing written
             [threw |-> TRUE, delta |-> filteredData, ret |-> <<>>, file |-> f]
        ELSE LET allData == AllData(existing.data, filteredData)
             IN  [threw |-> FALSE, delta |-> filteredData, ret |-> allData,
                  file |-> Output(allData)]

-----------------------------------------------------------------------------
(* Day labels: dayjs(item.date).format("dddd, D MMMM YYYY"), locale "id"    *)

\* dayjs/locale/id (required at line 9, selected at line 15)
Weekdays == <<"Minggu", "Senin", "Selasa", "Rabu", "Kamis", "Jumat", "Sabtu">>

Months == <<"Januari", "Februari", "Maret", "April", "Mei", "Juni", "Juli",
            "Agustus", "September", "Oktober", "November", "Desember">>

MonthLengths == <<31, 29, 31, 30, 31, 30, 31, 31, 30, 31, 30, 31>>     \* 2024

\* the local calendar day of a timestamp, in days since 30 April 2024
DayIndex(date) == date \div 2

RECURSIVE MonthDay(_, _)
\* the month and day of month of the doy-th day counted from the 1st of month m
MonthDay(doy, m) ==
    IF m = 12 \/ doy <= MonthLengths[m]
    THEN [month |-> m, day |-> doy]
    ELSE MonthDay(doy - MonthLengths[m], m + 1)

\* the label as its parts: "<weekday>, <day> <month> <year>"
Format(date) ==
    LET k == DayIndex(date)
        md_ == MonthDay(121 + k, 1)         \* 30 April is the 121st day of 2024
    IN  [weekday |-> Weekdays[((2 + k) % 7) + 1],   \* 30 April 2024 is a Selasa
         day |-> md_.day, month |-> Months[md_.month], year |-> 2024]

NoLabel == [weekday |-> "", day |-> 0, month |-> "", year |-> 0]

\* the months whose Indonesian name starts with the three letters of the
\* English one: the only month words the runtime's Date parser knows
ParsedMonths == {"Januari", "Februari", "Maret", "April", "Juni", "Juli",
                 "September", "November"}

RECURSIVE DaysBefore(_)
DaysBefore(m) == IF m = 1 THEN 0 ELSE DaysBefore(m - 1) + MonthLengths[m - 1]

\* new Date(label): a leading word is skipped, then day, month word and year
\* are read; a word after the day that is no month makes the date invalid.
\* A valid label is that day's local midnight, in hours as NewDate counts them.
NewDateOfLabel(label) ==
    IF label.month \notin ParsedMonths THEN NaN
    ELSE LET m == CHOOSE i \in DOMAIN Months : Months[i] = label.month
         IN  (DaysBefore(m) + label.day - 121) * 24

-----------------------------------------------------------------------------
(* daily_activity.md: the sequence of its lines                            *)

Backtick == "bq"    \* the ` of the report's code spans

Line(kind, label, project, bracket, title, suffix, of) ==
    [kind |-> kind, label |-> label, project |-> project, bracket |-> bracket,
     title |-> title, suffix |-> suffix, of |-> of]

TitleLine ==
    Line("title", NoLabel, <<>>, <<>>, <<"GitLab Activity History">>, <<>>, NullEntry)

\* `\n## ${day}\n`
DayLine(label) == Line("day", label, <<>>, <<>>, <<>>, <<>>, NullEntry)

\* `### Commits`, `### Merge Requests`, ""
PlainLine(kind) == Line(kind, NoLabel, <<>>, <<>>, <<>>, <<>>, NullEntry)

\* `- [\`${project}\`] ${branchLabel} ${c.title}${fromMR}` (278-283); "of" is
\* the activity the bullet renders, which is no part of the text
CommitLine(c) ==
    Line("bullet", NoLabel, <<Backtick, c.project, Backtick>>,
         IF c.target_branch # Undefined
         THEN <<c.branch, " / ", c.target_branch>> ELSE <<c.branch>>,
         c.title,
         IF c.from_merge_request
         THEN <<"(from MR: ", Backtick, c.mr_source, Arrow, c.mr_target, Backtick, ")">>
         ELSE <<>>,
         c)

\* `- [\`${project}\`] [${mr.source} -> ${mr.target}] ${mr.title}` (291-294)
MrLine(mr) ==
    Line("bullet", NoLabel, <<Backtick, mr.project, Backtick>>,
         <<mr.source, Arrow, mr.target>>, mr.title, <<>>, mr)

AbsentReport == [exists |-> FALSE, lines |-> <<>>]

\* commitShaRegex /\[([^\]]+)\] \[([^\]]+)\] .*?\(from MR: .*?\)?/g: the
\* bullets that carry a "(from MR: " suffix; match[1] is the first bracket
MatchesCommitShaRegex(line) ==
    line.kind = "bullet" /\ line.suffix # <<>> /\ line.suffix[1] = "(from MR: "

\* mrRegex /\[([^\]]+)\] \[([^\]]+ -> [^\]]+)\] .*/g: the bullets whose second
\* bracket holds an arrow; match[2] is that bracket
MatchesMrRegex(line) ==
    line.kind = "bullet" /\ Len(line.bracket) = 3 /\ line.bracket[2] = Arrow

ExtractExistingIds(report) ==
    IF ~report.exists THEN [shas |-> {}, mrs |-> {}]
    ELSE LET ls == report.lines
         IN  [shas |-> {ls[i].project : i \in {j \in DOMAIN ls : MatchesCommitShaRegex(ls[j])}},
              mrs |-> {ls[i].bracket : i \in {j \in DOMAIN ls : MatchesMrRegex(ls[j])}}]

\* the filter callback of saveGroupedToMarkdown (247-252)
KeepForReport(item, ids) ==
    IF item.type = "Commit" THEN ShaKey(item) \notin ids.shas
    ELSE IF item.type = "Merge Request" THEN MrKey(item) \notin ids.mrs
    ELSE TRUE

FilteredForReport(data, report) ==
    LET ids == ExtractExistingIds(report)
        Test(item) == KeepForReport(item, ids)
    IN  SelectSeq(data, Test)

RECURSIVE DayKeys(_)
\* the keys of groupedByDay in insertion order (259-264)
DayKeys(items) ==
    IF items = <<>> THEN <<>>
    ELSE LET rest == DayKeys(SubSeq(items, 1, Len(items) - 1))
             key == Format(items[Len(items)].date)
         IN  IF \E i \in DOMAIN rest : rest[i] = key THEN rest ELSE Append(rest, key)

\* groupedByDay[day]
DayGroup(items, label) ==
    LET Test(item) == Format(item.date) = label
    IN  SelectSeq(items, Test)

IsCommit(a) == a.type = "Commit"

IsMr(a) == a.type = "Merge Request"

\* the lines pushed for one day (270-297)
DaySection(label, activities) ==
    LET cs == SelectSeq(activities, IsCommit)
        ms == SelectSeq(activities, IsMr)
    IN  <<DayLine(label)>>
        \o (IF cs # <<>>
            THEN <<PlainLine("commits")>> \o [i \in DOMAIN cs |-> CommitLine(cs[i])]
                 \o <<PlainLine("blank")>>
            ELSE <<>>)
        \o (IF ms # <<>>
            THEN <<PlainLine("mrs")>> \o [i \in DOMAIN ms |-> MrLine(ms[i])]
                 \o <<PlainLine("blank")>>
            ELSE <<>>)

RECURSIVE Sections(_, _, _, _)
\* newLines: the sections of the days keys[order[1]], ..., keys[order[n]]
Sections(items, keys, order, n) ==
    IF n = 0 THEN <<>>
    ELSE Sections(items, keys, order, n - 1)
         \o DaySection(keys[order[n]], DayGroup(items, keys[order[n]]))

\* existingContent.replace(/^# GitLab Activity History\n/, "")
WithoutTitle(lines) ==
    IF lines # <<>> /\ lines[1] = TitleLine THEN Tail(lines) ELSE lines

\* the reports saveGroupedToMarkdown may leave: one per order the sort of the
\* day keys may produce (244-311)
SaveGroupedToMarkdownResults(data, report) ==
    LET filteredData == FilteredForReport(data, report)
        keys == DayKeys(filteredData)
        parsed == [i \in DOMAIN keys |-> NewDateOfLabel(keys[i])]
    IN  IF filteredData = <<>> THEN {report}
        ELSE {[exists |-> TRUE,
               lines |-> <<TitleLine>>
                         \o Sections(filteredData, keys, order, Len(keys))
                         \o (IF report.exists THEN WithoutTitle(report.lines) ELSE <<>>)]
              : order \in SortOrders(parsed)}

Bullets(report) == SelectSeq(report.lines, LAMBDA l : l.kind = "bullet")

-----------------------------------------------------------------------------
(* The batches a run collects (runs of the reconciliation)                 *)

Shas == {"a1", "b2"}

ProjectNames == {"P", "Q"}

Iids == {1, 2}

\* commit.created_at: a commit's date is fixed by its sha
CreatedAt(sha) == IF sha = "a1" THEN 2 ELSE 4

\* mr.created_at of merge request iid of a project
MrCreatedAt(project, iid) == IF project = "P" THEN 2 * iid - 1 ELSE 2 * iid - 2

\* the activities main can push: each commit as collected in P (inside the
\* merge request feat -> main) and in Q, a fork (on its branch main), and the
\* merge requests of P (feat -> main, reopened under the same names) and of Q
BatchActivities ==
    {Commit("P", s, CreatedAt(s), "feat", "main", <<"fix">>, TRUE, "feat", "main") : s \in Shas}
    \cup {Commit("Q", s, CreatedAt(s), "main", Undefined, <<"fix">>, FALSE, Undefined, Undefined)
          : s \in Shas}
    \cup {MergeRequest(p, i, Undefined, IF p = "P" THEN "feat" ELSE "hotfix", "main",
                       <<"change">>, MrCreatedAt(p, i)) : p \in ProjectNames, i \in Iids}

Batches == UNION {[1..n -> BatchActivities] : n \in 0..MaxBatch}

NoLoad == [kind |-> "none", shas |-> {}, mrs |-> {}, data |-> <<>>]

NoSave == [threw |-> FALSE, delta |-> <<>>, ret |-> <<>>]

NoRemote == [mrs |-> <<>>, mrCommits |-> <<>>, branches |-> <<>>, brCommits |-> <<>>]

\* what a file is to extractExistingFromJson
FileKind(f) ==
    IF f.kind # "json" THEN f.kind
    ELSE IF \E i \in DOMAIN f.activities : f.activities[i] = NullEntry THEN "unreadable"
    ELSE "json"

Init ==
    /\ pc = "idle"
    /\ allActivities = <<>>
    /\ file = AbsentFile
    /\ lastLoad = NoLoad
    /\ lastSave = NoSave
    /\ md = AbsentReport
    /\ projIdx = 0
    /\ remote = NoRemote
    /\ mergeRequests = <<>>
    /\ commits = <<>>
    /\ faults = <<>>
    /\ expected = <<>>

collectVars == <<projIdx, remote, mergeRequests, commits, faults, expected>>

\* main, lines 317-353, as far as saveAsJson sees it: a run has collected
\* some batch (the loop itself is SpecCollect's)
Collect ==
    /\ pc = "idle"
    /\ \E batch \in Batches :
        /\ Len(file.activities) + Len(batch) <= MaxRecord
        /\ allActivities' = batch
    /\ pc' = "json"
    /\ lastLoad' = NoLoad
    /\ lastSave' = NoSave
    /\ UNCHANGED <<file, md, collectVars>>

\* main, line 356: saveAsJson(allActivities, "daily_activity.json")
SaveAsJson ==
    /\ pc = "json"
    /\ LET existing == ExtractExistingFromJson(file)
           r == SaveAsJsonResult(allActivities, file)
       IN  /\ lastLoad' = [kind |-> FileKind(file), shas |-> existing.shas,
                           mrs |-> existing.mrs, data |-> existing.data]
           /\ lastSave' = [threw |-> r.threw, delta |-> r.delta, ret |-> r.ret]
           /\ file' = r.file
           /\ pc' = "idle"
    /\ UNCHANGED <<allActivities, md, collectVars>>

\* main, lines 317-353, as far as saveGroupedToMarkdown sees it
CollectForReport ==
    /\ pc = "idle"
    /\ \E batch \in Batches :
        /\ Len(Bullets(md)) + Len(batch) <= MaxRecord
        /\ allActivities' = batch
    /\ pc' = "md"
    /\ UNCHANGED <<file, lastLoad, lastSave, md, collectVars>>

\* main, line 357: saveGroupedToMarkdown(allActivities, "daily_activity.md")
SaveGroupedToMarkdown ==
    /\ pc = "md"
    /\ md' \in SaveGroupedToMarkdownResults(allActivities, md)
    /\ pc' = "idle"
    /\ UNCHANGED <<allActivities, file, lastLoad, lastSave, collectVars>>

InsertAt(s, k, x) == SubSeq(s, 1, k - 1) \o <<x>> \o SubSeq(s, k, Len(s))

\* between two runs (the last one's locals are gone) the record is damaged
\* outside the program: its content stops being JSON, or one entry of its
\* activities array becomes null
Tamper ==
    /\ pc = "idle"
    /\ FileKind(file) = "json"
    /\ \/ file' = InvalidFile
       \/ \E k \in 1..(Len(file.activities) + 1) :
            file' = [file EXCEPT !.activities = InsertAt(file.activities, k, NullEntry)]
    /\ allActivities' = <<>>
    /\ lastLoad' = NoLoad
    /\ lastSave' = NoSave
    /\ UNCHANGED <<pc, md, collectVars>>

Next == Collect \/ SaveAsJson \/ Tamper

Spec == Init /\ [][Next]_vars

NextMd == CollectForReport \/ SaveGroupedToMarkdown

SpecMd == Init /\ [][NextMd]_vars

-----------------------------------------------------------------------------
(* The remote API, and the collection of one project                       *)

MaxMrs == 2         \* merge requests the API lists for one project

UserEmail == "me@example.org"       \* user.email

\* commit objects of the API: the user's plain commit, the user's merge
\* commit, and somebody else's commit
RawCommit(id) ==
    [id |-> id,
     title |-> IF id = "b2" THEN <<"Merge branch '", "feat", "' into ", "dev">> ELSE <<"fix">>,
     created_at |-> IF id = "c3" THEN 0 ELSE CreatedAt(id),
     author_email |-> IF id = "c3" THEN "you@example.org" ELSE UserEmail]

RawCommits == {RawCommit(id) : id \in Shas \cup {"c3"}}

\* a page list of commits: none or one
CommitLists == {<<>>} \cup {<<c>> : c \in RawCommits}

BranchNames == {"main", "feat"}

\* merge request objects of the API; the iid is the position in the listing
RawMr(iid, source, target) ==
    [iid |-> iid, merge_commit_sha |-> Undefined, source_branch |-> source,
     target_branch |-> target, title |-> <<"change">>, created_at |-> 1]

MrBranches == {<<"feat", "main">>, <<"fix", "dev">>}

MrListings(n) ==
    {[i \in 1..n |-> RawMr(i, st[i][1], st[i][2])] : st \in [1..n -> MrBranches]}

BranchListings == {<<>>} \cup {<<b>> : b \in BranchNames}
                  \cup {bs \in BranchNames \X BranchNames : bs[1] # bs[2]}

\* what the API holds for one project: its merge requests with the commits of
\* each, its branches with the commits of each
Remotes(maxMrs, branchListings) ==
    UNION {
        {[mrs |-> mrs, mrCommits |-> mc, branches |-> bs, brCommits |-> bc] :
            mc \in [DOMAIN mrs -> CommitLists], bc \in [DOMAIN bs -> CommitLists]}
        : mrs \in UNION {MrListings(n) : n \in 0..maxMrs}, bs \in branchListings}

\* getMergeRequests' mrs.map (54-61)
GetMergeRequests(rem) ==
    [i \in DOMAIN rem.mrs |->
        [iid |-> rem.mrs[i].iid, sha |-> rem.mrs[i].merge_commit_sha,
         source |-> rem.mrs[i].source_branch, target |-> rem.mrs[i].target_branch,
         title |-> rem.mrs[i].title, date |-> rem.mrs[i].created_at]]

NoMr == [iid |-> 0, sha |-> Undefined, source |-> Undefined, target |-> Undefined,
         title |-> <<>>, date |-> 0]

RECURSIVE Flatten(_)
Flatten(ss) ==
    IF ss = <<>> THEN <<>>
    ELSE Flatten(SubSeq(ss, 1, Len(ss) - 1)) \o ss[Len(ss)]

\* the commits the first loop visits, in its order (88-115): merge request by
\* merge request, those whose commit list could be fetched
MrWalk(mrs, rem, mrFails) ==
    Flatten([i \in DOMAIN mrs |->
        IF i \in mrFails THEN <<>>
        ELSE [k \in DOMAIN rem.mrCommits[i] |->
                [commit |-> rem.mrCommits[i][k], viaMr |-> TRUE, mr |-> mrs[i],
                 branch |-> Undefined]]])

\* the number of branches whose commits the second loop gets to (118-156):
\* brFailAt = 0 is a branch listing that throws, brFailAt = k the commit
\* listing of branch k that throws, and beyond the branches nothing throws
Walked(rem, brFailAt) ==
    IF brFailAt = 0 THEN 0
    ELSE IF brFailAt <= Len(rem.branches) THEN brFailAt - 1
    ELSE Len(rem.branches)

\* the commits the second loop visits, in its order
BranchWalk(rem, brFailAt) ==
    Flatten([j \in 1..Walked(rem, brFailAt) |->
        [k \in DOMAIN rem.brCommits[j] |->
            [commit |-> rem.brCommits[j][k], viaMr |-> FALSE, mr |-> NoMr,
             branch |-> rem.branches[j]]]])

\* commit.title.match(/Merge branch '(.+?)'.*into (.+)/): whether it matches
MergeMatch(title) ==
    Len(title) = 4 /\ title[1] = "Merge branch '" /\ title[3] = "' into "

\* let displayBranch (132-138); mergeMatch[2] is never empty
DisplayBranch(branchName, title) ==
    IF MergeMatch(title) THEN title[4] ELSE branchName

\* let targetBranch (133-138)
TargetBranch(branchName, title) ==
    IF MergeMatch(title) THEN title[4] ELSE Undefined

\* the object pushed for a visited commit (99-109, 140-150)
Attributed(c) ==
    IF c.viaMr
    THEN Commit(Undefined, c.commit.id, c.commit.created_at, c.mr.source, c.mr.target,
                c.commit.title, TRUE, c.mr.source, c.mr.target)
    ELSE Commit(Undefined, c.commit.id, c.commit.created_at,
                DisplayBranch(c.branch, c.commit.title),
                TargetBranch(c.branch, c.commit.title),
                c.commit.title, FALSE, Undefined, Undefined)

\* VisitOrder with the two loops swapped
VisitOrderBranchesFirst(mrs, rem, mrFails, brFailAt) ==
    BranchWalk(rem, brFailAt) \o MrWalk(mrs, rem, mrFails)

\* the order in which getCommitsWithCorrectBranch visits commits: the merge
\* requests' first, the branches' second
VisitOrder(mrs, rem, mrFails, brFailAt) ==
    MrWalk(mrs, rem, mrFails) \o BranchWalk(rem, brFailAt)

RECURSIVE Emit(_, _, _)
\* seenCommits and allCommits after the first n visited commits (95-96, 127-128)
Emit(visited, n, userEmail) ==
    IF n = 0 THEN [seenCommits |-> {}, allCommits |-> <<>>]
    ELSE LET acc == Emit(visited, n - 1, userEmail)
             c == visited[n]
         IN  IF c.commit.author_email = userEmail /\ c.commit.id \notin acc.seenCommits
             THEN [seenCommits |-> acc.seenCommits \cup {c.commit.id},
                   allCommits |-> Append(acc.allCommits, Attributed(c))]
             ELSE acc

GetCommitsWithCorrectBranch(userEmail, mrs, rem, mrFails, brFailAt) ==
    LET visited == VisitOrder(mrs, rem, mrFails, brFailAt)
    IN  Emit(visited, Len(visited), userEmail).allCommits

-----------------------------------------------------------------------------
(* main's loop over the projects                                           *)

Projects == <<"P", "Q">>        \* project.name_with_namespace of getUserProjects()

\* mrList: the merge request listing threw; mrCommits: the merge requests
\* whose commit listing threw; brFailAt: see Walked; commitList: some call
\* of getCommitsWithCorrectBranch threw
NoFaults == [mrList |-> FALSE, mrCommits |-> {}, brFailAt |-> 0, commitList |-> FALSE]

\* the commit shas and merge request iids a project's collection yields when
\* no call fails
Expected(rem) ==
    LET all == GetCommitsWithCorrectBranch(UserEmail, GetMergeRequests(rem), rem, {},
                                           Len(rem.branches) + 1)
    IN  [shas |-> {all[i].sha : i \in DOMAIN all},
         iids |-> {rem.mrs[i].iid : i \in DOMAIN rem.mrs}]

reconcileVars == <<file, lastLoad, lastSave, md>>

\* main, 325-337: the merge requests of the project are listed and pushed, or
\* the listing throws and they are skipped
ListMergeRequests ==
    /\ pc = "mrs"
    /\ \E fail \in BOOLEAN :
        /\ mergeRequests' = IF fail THEN <<>> ELSE GetMergeRequests(remote)
        /\ allActivities' = allActivities \o
             [i \in DOMAIN mergeRequests' |->
                LET mr == mergeRequests'[i]
                IN  MergeRequest(Projects[projIdx], mr.iid, mr.sha, mr.source, mr.target,
                                 mr.title, mr.date)]
        /\ faults' = Append(faults, [NoFaults EXCEPT !.mrList = fail])
    /\ expected' = Append(expected, Expected(remote))
    /\ pc' = "commits"
    /\ UNCHANGED <<projIdx, remote, commits, reconcileVars>>

\* main, 339-352: the commits of the project are collected and pushed;
\* getCommitsWithCorrectBranch catches what its calls throw
CollectCommits ==
    /\ pc = "commits"
    /\ \E mrFails \in SUBSET (DOMAIN mergeRequests), brFailAt \in 0..(Len(remote.branches) + 1) :
        /\ commits' = GetCommitsWithCorrectBranch(UserEmail, mergeRequests, remote,
                                                  mrFails, brFailAt)
        /\ faults' = [faults EXCEPT ![Len(faults)].mrCommits = mrFails,
                                    ![Len(faults)].brFailAt = brFailAt,
                                    ![Len(faults)].commitList =
                                        mrFails # {} \/ brFailAt <= Len(remote.branches)]
    /\ allActivities' = allActivities \o
         [i \in DOMAIN commits' |-> [commits'[i] EXCEPT !.project = Projects[projIdx]]]
    /\ pc' = "next"
    /\ UNCHANGED <<projIdx, remote, mergeRequests, expected, reconcileVars>>

\* the projects of SpecCollect hold at most one merge request and one branch
SmallRemotes == Remotes(1, {<<>>} \cup {<<b>> : b \in BranchNames})

\* main, 321: the loop goes on to the next project
NextProject ==
    /\ pc = "next"
    /\ projIdx < Len(Projects)
    /\ projIdx' = projIdx + 1
    /\ remote' \in SmallRemotes
    /\ mergeRequests' = <<>>
    /\ commits' = <<>>
    /\ pc' = "mrs"
    /\ UNCHANGED <<allActivities, faults, expected, reconcileVars>>

\* main, 353-356: the loop is over and the batch goes to the save step
ReachSave ==
    /\ pc = "next"
    /\ projIdx = Len(Projects)
    /\ pc' = "save"
    /\ UNCHANGED <<allActivities, projIdx, remote, mergeRequests, commits, faults,
                   expected, reconcileVars>>

InitCollect ==
    /\ pc = "mrs"
    /\ allActivities = <<>>
    /\ file = AbsentFile
    /\ lastLoad = NoLoad
    /\ lastSave = NoSave
    /\ md = AbsentReport
    /\ projIdx = 1
    /\ remote \in SmallRemotes
    /\ mergeRequests = <<>>
    /\ commits = <<>>
    /\ faults = <<>>
    /\ expected = <<>>

NextCollect == ListMergeRequests \/ CollectCommits \/ NextProject \/ ReachSave

SpecCollect == InitCollect /\ [][NextCollect]_vars

\* one call of getCommitsWithCorrectBranch in full: the last project of the
\* loop, with up to MaxMrs merge requests and two branches
InitAttrib ==
    /\ pc = "mrs"
    /\ allActivities = <<>>
    /\ file = AbsentFile
    /\ lastLoad = NoLoad
    /\ lastSave = NoSave
    /\ md = AbsentReport
    /\ projIdx = Len(Projects)
    /\ remote \in Remotes(MaxMrs, BranchListings)
    /\ mergeRequests = <<>>
    /\ commits = <<>>
    /\ faults = <<>>
    /\ expected = <<>>

NextAttrib == ListMergeRequests \/ CollectCommits \/ ReachSave

SpecAttrib == InitAttrib /\ [][NextAttrib]_vars

-----------------------------------------------------------------------------
(* Properties of the reconciliation (Spec)                                 *)

Readable(s) == \A i \in DOMAIN s : s[i] # NullEntry

\* no two Commit entries of s with equal sha, no two Merge Request entries
\* with equal (source, target)
NoDuplicateKeys(s) ==
    \A i, j \in DOMAIN s :
        /\ (s[i].type = "Commit" /\ s[j].type = "Commit" /\ s[i].sha = s[j].sha) => i = j
        /\ (s[i].type = "Merge Request" /\ s[j].type = "Merge Request"
            /\ MrKey(s[i]) = MrKey(s[j])) => i = j

\* C1: after any sequence of runs of saveAsJson the persisted activities
\* list holds no two Commit entries with equal sha and no two Merge Request
\* entries with equal (source, target), also when the batch itself carries
\* two entries with the same identity key.
C1_NoDuplicates == NoDuplicateKeys(file.activities)

\* a saveAsJson has returned and its process is still there
Saved == pc = "idle" /\ lastLoad.kind # "none" /\ ~lastSave.threw

\* C2: running saveAsJson again with the same batch against the record the
\* first run left yields an empty delta and leaves the record, and the full
\* record returned, unchanged.
C2_Idempotent ==
    Saved =>
        LET again == SaveAsJsonResult(allActivities, file)
        IN  /\ ~again.threw
            /\ again.delta = <<>>
            /\ again.file = file
            /\ again.ret = lastSave.ret

\* a first run that merged new commits and merge requests into a record
C2_Witness ==
    /\ Saved
    /\ lastLoad.data # <<>>
    /\ \E i, j \in DOMAIN lastSave.delta :
        lastSave.delta[i].type = "Commit" /\ lastSave.delta[j].type = "Merge Request"

\* C3: every full record saveAsJson returns, on the short-circuit path or on
\* the merge-and-sort path, has each entry's date >= the next entry's date,
\* given that all its dates parse.
C3_SortedDescending ==
    (Saved /\ Readable(lastSave.ret)) =>
        \A i \in 1..(Len(lastSave.ret) - 1) :
            NewDate(lastSave.ret[i].date) >= NewDate(lastSave.ret[i + 1].date)

\* a merge that put a new entry in front of a strictly older existing one and
\* behind a strictly newer existing one
C3_Witness ==
    /\ Saved
    /\ Readable(lastSave.ret)
    /\ \E n \in DOMAIN lastSave.delta :
        /\ \E i \in DOMAIN lastLoad.data : lastLoad.data[i].date < lastSave.delta[n].date
        /\ \E i \in DOMAIN lastLoad.data : lastLoad.data[i].date > lastSave.delta[n].date

\* C5: a run never removes or rewrites an entry of the structured record:
\* every activity of the activities list before saveAsJson is in it after,
\* as often and with the same fields.
C5_OnlyGrows ==
    [][pc = "json" =>
        \A i \in DOMAIN file.activities :
            Count(file'.activities, file.activities[i])
                >= Count(file.activities, file.activities[i])]_vars

\* a run that wrote new entries into a record that held some
C5_Witness ==
    /\ Saved
    /\ lastLoad.kind = "json"
    /\ lastLoad.data # <<>>
    /\ lastSave.delta # <<>>
    /\ Len(file.activities) = Len(lastLoad.data) + Len(lastSave.delta)

\* C7: when the record file is absent, or present but not parseable as
\* expected (invalid JSON, or an activities value whose entries cannot be
\* read), extractExistingFromJson returns empty identity sets and an empty
\* prior record, and the saveAsJson that follows completes treating the
\* whole batch as new.
C7_LoadTolerant ==
    (pc = "idle" /\ lastLoad.kind \in {"absent", "invalid", "unreadable"}) =>
        /\ lastLoad.shas = {}
        /\ lastLoad.mrs = {}
        /\ lastLoad.data = <<>>
        /\ ~lastSave.threw
        /\ lastSave.delta = allActivities

-----------------------------------------------------------------------------
(* Properties of the text report (SpecMd)                                  *)

\* the calendar day a label stands for, as the day of the year
DayOfYear(label) ==
    DaysBefore(CHOOSE i \in DOMAIN Months : Months[i] = label.month) + label.day

\* the days of the day sections of lines, top to bottom
SectionDays(lines) ==
    LET ds == SelectSeq(lines, LAMBDA l : l.kind = "day")
    IN  [i \in DOMAIN ds |-> DayOfYear(ds[i].label)]

\* the lines a run put on top of the report it found
NewLines(before, after) ==
    SubSeq(after.lines, 1, Len(after.lines) - Len(WithoutTitle(before.lines)))

\* C9: the day sections saveGroupedToMarkdown generates in one run are in
\* the order newest day first: of two sections of the same run the one of
\* the later calendar day comes first, whatever the collection order and the
\* formatted day label.
C9_NewestDayFirst ==
    [][pc = "md" =>
        LET days == SectionDays(NewLines(md, md'))
        IN  \A i, j \in DOMAIN days : i < j => days[i] > days[j]]_vars

\* C10: the report is deduplicated across runs: a second
\* saveGroupedToMarkdown with the same batch adds nothing, so no commit and
\* no merge request has more than one bullet line, and the report starts
\* with exactly one title line.
C10_ReportDeduplicated ==
    (pc = "idle" /\ md.exists) =>
        /\ SaveGroupedToMarkdownResults(allActivities, md) = {md}
        /\ \A i, j \in DOMAIN md.lines :
            (md.lines[i].kind = "bullet" /\ md.lines[j].kind = "bullet"
             /\ md.lines[i].of = md.lines[j].of) => i = j
        /\ \A i \in DOMAIN md.lines : md.lines[i] = TitleLine <=> i = 1

-----------------------------------------------------------------------------
(* Properties of the collection (SpecCollect, SpecAttrib)                  *)

\* the faults of the call of getCommitsWithCorrectBranch that has returned
Cur == faults[Len(faults)]

UserAuthored(list, sha) ==
    \E k \in DOMAIN list : list[k].id = sha /\ list[k].author_email = UserEmail

\* the merge requests whose fetched commit list holds the user's commit sha
MrHits(sha) ==
    {i \in DOMAIN mergeRequests :
        i \notin Cur.mrCommits /\ UserAuthored(remote.mrCommits[i], sha)}

\* the walked branches whose commit list holds the user's commit sha
BrHits(sha) ==
    {j \in 1..Walked(remote, Cur.brFailAt) : UserAuthored(remote.brCommits[j], sha)}

Min(S) == CHOOSE x \in S : \A y \in S : x <= y

AllShas == {c.id : c \in RawCommits}

\* the one entry of commits with this sha is as Right(e) says
TheEntry(sha, Right(_)) ==
    \E i \in DOMAIN commits :
        /\ \A j \in DOMAIN commits : commits[j].sha = sha => j = i
        /\ commits[i].sha = sha
        /\ Right(commits[i])

\* a sha of some fetched merge request is attributed to the first of them
FromFirstMr(sha) ==
    LET mr == mergeRequests[Min(MrHits(sha))]
        Right(e) == /\ e.branch = mr.source
                    /\ e.target_branch = mr.target
                    /\ e.from_merge_request
                    /\ e.mr_source = mr.source
                    /\ e.mr_target = mr.target
    IN  MrHits(sha) # {} => TheEntry(sha, Right)

\* C4, as amended: first match wins over the walk order merge request 1..n
\* then branch 1..m, over the commit lists that were fetched. A user-authored
\* sha in some merge request's commit list is emitted with that merge
\* request's source, target and from_merge_request = true (the first listed
\* one that contains it), also when a branch walk returns it; a sha seen only
\* in branch walks is emitted by the first enumerated branch, with
\* from_merge_request = false, under that branch's name, or, when its title
\* is "Merge branch '..' .. into <target>", under <target>.
C4_FirstMatchWins ==
    pc = "next" =>
        \A sha \in AllShas :
            /\ FromFirstMr(sha)
            /\ (MrHits(sha) = {} /\ BrHits(sha) # {}) =>
                LET name == remote.branches[Min(BrHits(sha))]
                    Right(e) ==
                        /\ ~e.from_merge_request
                        /\ e.branch = IF MergeMatch(e.title) THEN e.title[4] ELSE name
                        /\ e.target_branch = IF MergeMatch(e.title) THEN e.title[4]
                                             ELSE Undefined
                IN  TheEntry(sha, Right)

\* a sha that two merge requests with different sources and a branch return
C4_Witness ==
    /\ pc = "next"
    /\ \E sha \in AllShas :
        /\ BrHits(sha) # {}
        /\ \E i, j \in MrHits(sha) :
            i < j /\ mergeRequests[i].source # mergeRequests[j].source

\* C4, as claimed: ... a sha seen only in branch walks takes the first
\* enumerated branch and has from_merge_request = false.
C4_FirstBranchName ==
    pc = "next" =>
        \A sha \in AllShas :
            /\ FromFirstMr(sha)
            /\ (MrHits(sha) = {} /\ BrHits(sha) # {}) =>
                LET name == remote.branches[Min(BrHits(sha))]
                    Right(e) == ~e.from_merge_request /\ e.branch = name
                IN  TheEntry(sha, Right)

\* the commit shas collected for project p
CollectedShas(p) ==
    {allActivities[i].sha : i \in {j \in DOMAIN allActivities :
        allActivities[j].type = "Commit" /\ allActivities[j].project = Projects[p]}}

\* the merge request iids collected for project p
CollectedIids(p) ==
    {allActivities[i].iid : i \in {j \in DOMAIN allActivities :
        allActivities[j].type = "Merge Request" /\ allActivities[j].project = Projects[p]}}

\* C6: when the merge request listing or the commit listing of one project
\* fails, only that project's activities of that type are missing from the
\* batch: the project's other type, and every other project's merge
\* requests and commits, are collected as without the failure.
C6_FaultIsolation ==
    pc = "save" =>
        \A p \in DOMAIN Projects :
            /\ ~faults[p].commitList => CollectedShas(p) = expected[p].shas
            /\ ~faults[p].mrList => CollectedIids(p) = expected[p].iids

\* C8: within one run every commit sha is at most once in the batch handed
\* to the save step, whatever branches, merge requests or projects returned
\* it.
C8_ShaOnce ==
    pc = "save" =>
        \A i, j \in DOMAIN allActivities :
            (allActivities[i].type = "Commit" /\ allActivities[j].type = "Commit"
             /\ allActivities[i].sha = allActivities[j].sha) => i = j

====
